---------------------------- MODULE Spec2Model ----------------------------
(***************************************************************************)
(* PERMA API (src/main.py, src/schemas.py): check-in upsert, summary       *)
(* statistics (averages, streak), goal CRUD with ownership checks and      *)
(* reflections, over a document store.                                     *)
(*                                                                         *)
(* Encoding                                                                *)
(*   Optional[T]   None is <<>>, a present value v is <<v>>.               *)
(*   date strings  [kind, ord]: kind "date" is "YYYY-MM-DD" of day ord,    *)
(*                 kind "datetime" is "YYYY-MM-DDT08:00:00" of day ord,    *)
(*                 kind "text" is a string that is no ISO 8601 text        *)
(*                 ("someday").                                            *)
(*   time          today is what date.today() returns (a day number),      *)
(*                 clock is what datetime.utcnow() returns (an instant).   *)
(*   averages      round(x, 2) is kept in hundredths (an integer).         *)
(***************************************************************************)
EXTENDS Integers, Sequences, FiniteSets

VARIABLES checkin, goal, reflection, today, clock, nextOid, inflight, req, resp

vars == <<checkin, goal, reflection, today, clock, nextOid, inflight, req, resp>>

(***************************************************************************)
(* Bounds of the model.                                                    *)
(***************************************************************************)
\* the last day date.today() reaches (it starts at day 1; day 0 is before it)
MaxDay == 2
\* the last instant datetime.utcnow() reaches (it starts at 0)
MaxClock == 1
\* the number of documents ever created, over all collections
MaxOid == 3
\* the number of goals stored at the same time
MaxGoals == 2
\* the number of requests served at the same time
MaxWorkers == 2

(***************************************************************************)
(* Optional values and Python truthiness of Optional[str].                 *)
(***************************************************************************)
None == <<>>

Some(v) == <<v>>

Truthy(o) == o # None /\ o[1] # ""

\* get_user_id: header_val or "anon"
get_user_id(header_val) == IF Truthy(header_val) THEN header_val[1] ELSE "anon"

\* data["user_id"] = data.get("user_id") or user_id
resolve_user_id(payload_user_id, user_id) ==
    IF Truthy(payload_user_id) THEN payload_user_id[1] ELSE user_id

(***************************************************************************)
(* Date strings.                                                           *)
(***************************************************************************)
\* date.isoformat(): "YYYY-MM-DD"
isoformat(day) == [kind |-> "date", ord |-> day]

\* a datetime text of the same day, "YYYY-MM-DDT08:00:00"
isoformatT(day) == [kind |-> "datetime", ord |-> day]

\* a string that is no ISO 8601 text
Someday == [kind |-> "text", ord |-> 0]

\* datetime.fromisoformat accepts a date text and a datetime text and raises
\* ValueError on anything else
ParseOk(dstr) == dstr.kind \in {"date", "datetime"}

\* parse(dstr): datetime.fromisoformat(dstr).date()
parse(dstr) == dstr.ord

\* The store orders strings by code point: "YYYY-MM-DD" is a proper prefix of
\* "YYYY-MM-DDT08:00:00", both sort below the next day's texts, and a text that
\* starts with a letter sorts above every text that starts with a digit.
StrKey(dstr) ==
    CASE dstr.kind = "date" -> 2 * dstr.ord
      [] dstr.kind = "datetime" -> 2 * dstr.ord + 1
      [] OTHER -> 2 * (MaxDay + 2)

(***************************************************************************)
(* Sequences helpers.                                                      *)
(***************************************************************************)
Range(s) == {s[i] : i \in 1..Len(s)}

Take(s, n) == SubSeq(s, 1, IF n < Len(s) THEN n ELSE Len(s))

RECURSIVE SumSeq(_, _)
SumSeq(s, k) == IF s = <<>> THEN 0 ELSE s[1][k] + SumSeq(Tail(s), k)


(***************************************************************************)
(* Document store: a collection is the sequence of its documents in        *)
(* insertion order; ObjectIds are drawn from one counter.                  *)
(***************************************************************************)
\* str(ObjectId): the hex text of the identifier
StrOid(oid) == [hex |-> oid]

\* a goal id text that is no ObjectId
BadOid == [hex |-> -1]

\* ObjectId(text) raises on a text that is no 24-digit hex
ObjectIdOk(text) == text.hex >= 0

ObjectId(text) == text.hex

\* to_str_id: the document with "_id" replaced by "id", the identifier as text
to_str_id(doc) ==
    IF doc = None THEN doc
    ELSE Some([k \in (DOMAIN doc[1] \ {"_id"}) \cup {"id"} |->
                  IF k = "id" THEN StrOid(doc[1]._id) ELSE doc[1][k]])

\* a document matches a filter document when it holds each of its values
Matches(doc, flt) == \A k \in DOMAIN flt : k \in DOMAIN doc /\ doc[k] = flt[k]

\* the position of the first document the filter matches, 0 when none does
FirstMatch(col, flt) ==
    IF \E i \in 1..Len(col) : Matches(col[i], flt)
    THEN CHOOSE i \in 1..Len(col) :
             Matches(col[i], flt) /\ \A j \in 1..(i - 1) : ~Matches(col[j], flt)
    ELSE 0

\* collection.find_one(filter): the first matching document, None when none does
find_one(col, flt) ==
    IF FirstMatch(col, flt) = 0 THEN None ELSE Some(col[FirstMatch(col, flt)])

\* {"$set": updates} applied to one document
SetFields(doc, updates) ==
    [k \in DOMAIN doc \cup DOMAIN updates |->
        IF k \in DOMAIN updates THEN updates[k] ELSE doc[k]]

\* collection.update_one(filter, {"$set": updates}): the first match is updated
update_one(col, flt, updates) ==
    IF FirstMatch(col, flt) = 0 THEN col
    ELSE [col EXCEPT ![FirstMatch(col, flt)] = SetFields(col[FirstMatch(col, flt)], updates)]

\* collection.delete_one(filter): the first match is removed
delete_one(col, flt) ==
    IF FirstMatch(col, flt) = 0 THEN col
    ELSE SubSeq(col, 1, FirstMatch(col, flt) - 1)
            \o SubSeq(col, FirstMatch(col, flt) + 1, Len(col))

\* res.matched_count, res.deleted_count: 1 when the filter matched, else 0
matched_count(col, flt) == IF FirstMatch(col, flt) = 0 THEN 0 ELSE 1

\* create_document(collection, data): the data stored under a fresh identifier
\* with its creation and update timestamps
create_document(col, data, oid, at) ==
    Append(col, SetFields(data, [_id |-> oid, created_at |-> at, updated_at |-> at]))

(***************************************************************************)
(* Schemas (src/schemas.py).                                               *)
(***************************************************************************)
ScoreMin == 0
ScoreMax == 10
ProgressMin == 0
ProgressMax == 100

ScoreKeys == {"p", "e", "r", "m", "a"}

Dimensions == {"P", "E", "R", "M", "A"}
Cadences == {"daily", "weekly", "adhoc"}
Statuses == {"active", "done", "archived"}

\* CheckIn: every score is an integer with ge=0, le=10; date is any str
CheckInValid(payload) ==
    \A k \in ScoreKeys : payload[k] >= ScoreMin /\ payload[k] <= ScoreMax

\* CheckIn.model_dump(): an omitted date is date.today().isoformat()
CheckInDump(payload, day) ==
    [payload EXCEPT !.date = IF payload.date = None THEN isoformat(day)
                             ELSE payload.date[1]]

\* Goal: Literal dimension, cadence and status, progress with ge=0, le=100
GoalValid(payload) ==
    /\ payload.dimension \in Dimensions
    /\ payload.cadence \in Cadences
    /\ payload.status \in Statuses
    /\ payload.progress >= ProgressMin /\ payload.progress <= ProgressMax

(***************************************************************************)
(* Requests and responses: req and resp hold the last request served and   *)
(* its response, until the next request or until time passes.              *)
(***************************************************************************)
NoRequest == [op |-> "none"]

Ok(body) == [status |-> 200, body |-> body]

Error(code, detail) == [status |-> code, detail |-> detail]

(***************************************************************************)
(* POST /checkins                                                          *)
(***************************************************************************)
\* (mutant) the update skips the payload's None fields, as update_goal does
CheckinWriteSkipNone(col, existing, data, oid, at) ==
    IF existing # None
    THEN update_one(col, [_id |-> existing[1]._id],
                    [k \in {f \in DOMAIN data : f = "note" => data[f] # None}
                           \cup {"updated_at"} |->
                        IF k = "updated_at" THEN at ELSE data[k]])
    ELSE create_document(col, data, oid, at)

\* the write half of create_checkin: update the document found, or insert
CheckinWrite(col, existing, data, oid, at) ==
    IF existing # None
    THEN update_one(col, [_id |-> existing[1]._id],
                    SetFields(data, [updated_at |-> at]))
    ELSE create_document(col, data, oid, at)

\* the identifier of the document create_checkin reads back and returns
CheckinWritten(existing, oid) == IF existing # None THEN existing[1]._id ELSE oid

create_checkin(x_user_id, payload) ==
    /\ req' = [op |-> "create_checkin", caller |-> get_user_id(x_user_id),
               payload |-> payload]
    /\ IF ~CheckInValid(payload)
       THEN /\ resp' = Error(422, "validation")
            /\ UNCHANGED <<checkin, nextOid>>
       ELSE LET user_id == get_user_id(x_user_id)
                dump == CheckInDump(payload, today)
                data == [dump EXCEPT !.user_id = resolve_user_id(payload.user_id, user_id)]
                existing == find_one(checkin, [user_id |-> data.user_id, date |-> data.date])
                written == CheckinWritten(existing, nextOid)
                stored == CheckinWrite(checkin, existing, data, nextOid, clock)
            IN /\ existing = None => nextOid <= MaxOid
               /\ checkin' = stored
               /\ nextOid' = IF existing = None THEN nextOid + 1 ELSE nextOid
               /\ resp' = Ok(to_str_id(find_one(stored, [_id |-> written])))
    /\ UNCHANGED <<goal, reflection, today, clock, inflight>>

(***************************************************************************)
(* POST /checkins as the server runs it: each request on a thread of its   *)
(* own, its three store calls (find_one, update_one or insert, find_one)   *)
(* interleaved with those of the other requests.                           *)
(***************************************************************************)
\* lines 71-76: validation, the data to store and the find_one
CheckinFind(w, x_user_id, payload) ==
    /\ inflight[w] = None
    /\ IF ~CheckInValid(payload)
       THEN /\ req' = [op |-> "create_checkin", caller |-> get_user_id(x_user_id),
                       payload |-> payload]
            /\ resp' = Error(422, "validation")
            /\ UNCHANGED inflight
       ELSE LET user_id == get_user_id(x_user_id)
                dump == CheckInDump(payload, today)
                data == [dump EXCEPT !.user_id = resolve_user_id(payload.user_id, user_id)]
                existing == find_one(checkin, [user_id |-> data.user_id, date |-> data.date])
            IN /\ inflight' = [inflight EXCEPT ![w] =
                                  Some([pc |-> "write", caller |-> user_id,
                                        payload |-> payload, data |-> data,
                                        existing |-> existing, written |-> 0])]
               /\ UNCHANGED <<req, resp>>
    /\ UNCHANGED <<checkin, goal, reflection, today, clock, nextOid>>

\* line 78 or line 81: the update of the document found, or the insert
CheckinStore(w) ==
    /\ inflight[w] # None
    /\ inflight[w][1].pc = "write"
    /\ LET r == inflight[w][1]
       IN /\ r.existing = None => nextOid <= MaxOid
          /\ checkin' = CheckinWrite(checkin, r.existing, r.data, nextOid, clock)
          /\ nextOid' = IF r.existing = None THEN nextOid + 1 ELSE nextOid
          /\ inflight' = [inflight EXCEPT ![w] =
                             Some([r EXCEPT !.pc = "read",
                                            !.written = CheckinWritten(r.existing, nextOid)])]
    /\ UNCHANGED <<goal, reflection, today, clock, req, resp>>

\* line 79 or line 82: the document is read back and returned
CheckinReturn(w) ==
    /\ inflight[w] # None
    /\ inflight[w][1].pc = "read"
    /\ LET r == inflight[w][1]
       IN /\ req' = [op |-> "create_checkin", caller |-> r.caller, payload |-> r.payload]
          /\ resp' = Ok(to_str_id(find_one(checkin, [_id |-> r.written])))
    /\ inflight' = [inflight EXCEPT ![w] = None]
    /\ UNCHANGED <<checkin, goal, reflection, today, clock, nextOid>>

(***************************************************************************)
(* GET /stats/summary                                                      *)
(***************************************************************************)
DaysMin == 1
DaysMax == 365

\* find({"user_id": user_id}): the user's documents, in insertion order
FindUser(col, user_id) == SelectSeq(col, LAMBDA d : Matches(d, [user_id |-> user_id]))

\* sort("date", -1): by the date text, descending; equal texts keep their order
RECURSIVE SortDateDesc(_)
SortDateDesc(docs) ==
    IF docs = <<>> THEN <<>>
    ELSE LET i == CHOOSE i \in 1..Len(docs) :
                      /\ \A j \in 1..Len(docs) : StrKey(docs[j].date) <= StrKey(docs[i].date)
                      /\ \A j \in 1..(i - 1) : StrKey(docs[j].date) < StrKey(docs[i].date)
         IN <<docs[i]>> \o SortDateDesc(SubSeq(docs, 1, i - 1) \o SubSeq(docs, i + 1, Len(docs)))

\* (mutant) the oldest check-ins are fetched: sort("date", 1)
FetchWindowOldest(col, user_id, days) ==
    LET asc == SortDateDesc(FindUser(col, user_id))
    IN Take([i \in 1..Len(asc) |-> asc[Len(asc) + 1 - i]], days)

\* list(db["checkin"].find({"user_id": user_id}).sort("date", -1).limit(days))
FetchWindow(col, user_id, days) == Take(SortDateDesc(FindUser(col, user_id)), days)

\* round(total / n, 2), in hundredths. A tie (the quotient ends in exactly 5
\* thousandths) needs n to be a multiple of 8; for n = 8 the quotient is exact
\* in binary and round() takes the even neighbour.
Round2(total, n) ==
    LET q == (100 * total) \div n
        r == (100 * total) % n
    IN IF 2 * r < n THEN q
       ELSE IF 2 * r > n THEN q + 1
       ELSE IF q % 2 = 0 THEN q ELSE q + 1

\* avgs = {k: round(sums[k] / n, 2) for k in keys}
Averages(docs) == [k \in ScoreKeys |-> Round2(SumSeq(docs, k), Len(docs))]

\* sorted(S, reverse=True) of a set of days
RECURSIVE SortedDesc(_)
SortedDesc(S) ==
    IF S = {} THEN <<>>
    ELSE LET mx == CHOOSE x \in S : \A y \in S : y <= x
         IN <<mx>> \o SortedDesc(S \ {mx})

\* unique_dates = sorted({parse(d["date"]) for d in docs}, reverse=True)
UniqueDates(docs) == SortedDesc({parse(d.date) : d \in Range(docs)})

\* for dday in unique_dates: count while dday == expected, stepping a day back
RECURSIVE StreakLoop(_, _, _)
StreakLoop(unique_dates, expected, streak) ==
    IF unique_dates = <<>> THEN streak
    ELSE IF unique_dates[1] = expected
         THEN StreakLoop(Tail(unique_dates), expected - 1, streak + 1)
         ELSE streak

\* (mutant) the walk starts at the latest check-in instead of today
StreakFromLatest(docs, day) == StreakLoop(UniqueDates(docs), UniqueDates(docs)[1], 0)

Streak(docs, day) == StreakLoop(UniqueDates(docs), day, 0)

EmptySummary ==
    [count |-> 0, avg |-> [k \in ScoreKeys |-> None], latest |-> None, streak |-> 0]

Summary(docs, day) ==
    [count |-> Len(docs), avg |-> Averages(docs),
     latest |-> to_str_id(Some(docs[1])), streak |-> Streak(docs, day)]

stats_summary(days, x_user_id) ==
    /\ req' = [op |-> "stats_summary", caller |-> get_user_id(x_user_id), days |-> days]
    /\ resp' = IF days < DaysMin \/ days > DaysMax
               THEN Error(422, "validation")
               ELSE LET docs == FetchWindow(checkin, get_user_id(x_user_id), days)
                    IN IF docs = <<>> THEN Ok(EmptySummary)
                       ELSE IF \E d \in Range(docs) : ~ParseOk(d.date)
                            THEN Error(500, "ValueError")
                            ELSE Ok(Summary(docs, today))
    /\ UNCHANGED <<checkin, goal, reflection, today, clock, nextOid, inflight>>

(***************************************************************************)
(* Goals                                                                   *)
(***************************************************************************)
PatchKeys == {"title", "dimension", "cadence", "status", "progress"}

\* (mutant) the payload is dumped with Goal's defaults in place of None
PatchUpdatesDefaults(payload) ==
    [k \in {f \in PatchKeys : payload[f] # None} \cup {"cadence", "status"} |->
        IF payload[k] # None THEN payload[k][1]
        ELSE IF k = "cadence" THEN "daily" ELSE "active"]

\* updates = {k: v for k, v in payload.model_dump().items() if v is not None}
PatchUpdates(payload) ==
    [k \in {f \in PatchKeys : payload[f] # None} |-> payload[k][1]]

\* (mutant) the filter of update_one without the owner: {"_id": oid}
UpdateFilterAnyOwner(oid, user_id) == [_id |-> oid]

\* the filter of update_one: {"_id": oid, "user_id": user_id}
UpdateFilter(oid, user_id) == [_id |-> oid, user_id |-> user_id]

\* the filter of delete_one: {"_id": oid, "user_id": user_id}
DeleteFilter(oid, user_id) == [_id |-> oid, user_id |-> user_id]

create_goal(payload, x_user_id) ==
    /\ req' = [op |-> "create_goal", caller |-> get_user_id(x_user_id), payload |-> payload]
    /\ IF ~GoalValid(payload)
       THEN /\ resp' = Error(422, "validation")
            /\ UNCHANGED <<goal, nextOid>>
       ELSE LET user_id == get_user_id(x_user_id)
                data == [payload EXCEPT !.user_id = resolve_user_id(payload.user_id, user_id)]
                stored == create_document(goal, data, nextOid, clock)
            IN /\ nextOid <= MaxOid /\ Len(goal) < MaxGoals
               /\ goal' = stored
               /\ nextOid' = nextOid + 1
               /\ resp' = Ok(to_str_id(find_one(stored, [_id |-> nextOid])))
    /\ UNCHANGED <<checkin, reflection, today, clock, inflight>>

update_goal(goal_id, payload, x_user_id) ==
    /\ req' = [op |-> "update_goal", caller |-> get_user_id(x_user_id),
               goal_id |-> goal_id, payload |-> payload]
    /\ IF ~ObjectIdOk(goal_id)
       THEN /\ resp' = Error(400, "Invalid goal id")
            /\ UNCHANGED goal
       ELSE IF PatchUpdates(payload) = <<>>
       THEN /\ resp' = Error(400, "No updates provided")
            /\ UNCHANGED goal
       ELSE LET user_id == get_user_id(x_user_id)
                oid == ObjectId(goal_id)
                updates == PatchUpdates(payload)
                stored == update_one(goal, UpdateFilter(oid, user_id),
                                     SetFields(updates, [updated_at |-> clock]))
            IN IF matched_count(goal, UpdateFilter(oid, user_id)) = 0
               THEN /\ resp' = Error(404, "Goal not found")
                    /\ UNCHANGED goal
               ELSE /\ goal' = stored
                    /\ resp' = Ok(to_str_id(find_one(stored, [_id |-> oid])))
    /\ UNCHANGED <<checkin, reflection, today, clock, nextOid, inflight>>

delete_goal(goal_id, x_user_id) ==
    /\ req' = [op |-> "delete_goal", caller |-> get_user_id(x_user_id), goal_id |-> goal_id]
    /\ IF ~ObjectIdOk(goal_id)
       THEN /\ resp' = Error(400, "Invalid goal id")
            /\ UNCHANGED goal
       ELSE LET user_id == get_user_id(x_user_id)
                oid == ObjectId(goal_id)
            IN IF matched_count(goal, DeleteFilter(oid, user_id)) = 0
               THEN /\ resp' = Error(404, "Goal not found")
                    /\ UNCHANGED goal
               ELSE /\ goal' = delete_one(goal, DeleteFilter(oid, user_id))
                    /\ resp' = Ok([ok |-> TRUE])
    /\ UNCHANGED <<checkin, reflection, today, clock, nextOid, inflight>>

(***************************************************************************)
(* Reflections                                                             *)
(***************************************************************************)
\* Reflection.model_dump(): an omitted date is date.today().isoformat()
ReflectionDump(payload, day) ==
    [payload EXCEPT !.date = IF payload.date = None THEN isoformat(day)
                             ELSE payload.date[1]]

create_reflection(payload, x_user_id) ==
    /\ req' = [op |-> "create_reflection", caller |-> get_user_id(x_user_id),
               payload |-> payload]
    /\ LET user_id == get_user_id(x_user_id)
           dump == ReflectionDump(payload, today)
           data == [dump EXCEPT !.user_id = resolve_user_id(payload.user_id, user_id)]
           stored == create_document(reflection, data, nextOid, clock)
       IN /\ nextOid <= MaxOid
          /\ reflection' = stored
          /\ nextOid' = nextOid + 1
          /\ resp' = Ok(to_str_id(find_one(stored, [_id |-> nextOid])))
    /\ UNCHANGED <<checkin, goal, today, clock, inflight>>

(***************************************************************************)
(* Time passes: midnight (date.today() moves on), and the instants         *)
(* datetime.utcnow() returns.                                              *)
(***************************************************************************)
NextDay ==
    /\ today < MaxDay
    /\ today' = today + 1
    /\ req' = NoRequest
    /\ resp' = NoRequest
    /\ UNCHANGED <<checkin, goal, reflection, clock, nextOid, inflight>>

Tick ==
    /\ clock < MaxClock
    /\ clock' = clock + 1
    /\ req' = NoRequest
    /\ resp' = NoRequest
    /\ UNCHANGED <<checkin, goal, reflection, today, nextOid, inflight>>

(***************************************************************************)
(* Inputs.                                                                 *)
(***************************************************************************)
Anon == {None}

Headers == {None, Some("u1")}

PayloadUsers == {None, Some("u1")}

\* an omitted date (today), and the calendar dates of day 0 and day 2
CalendarDates == {None, Some(isoformat(0)), Some(isoformat(2))}

\* an omitted date, the calendar dates of the days 0..MaxDay, a datetime text
\* and a text that is no date
AnyDates ==
    {None} \cup {Some(isoformat(d)) : d \in 0..MaxDay}
           \cup {Some(isoformatT(1)), Some(Someday)}

ScoresA == [p |-> 7, e |-> 3, r |-> 4, m |-> 1, a |-> 10, note |-> Some("n")]
ScoresB == [p |-> 0, e |-> 2, r |-> 0, m |-> 1, a |-> 5, note |-> None]
ScoresBad == [p |-> 11, e |-> 0, r |-> 0, m |-> 0, a |-> 0, note |-> None]

CheckInPayloads(scores, users, dates) ==
    { SetFields(sc, [user_id |-> u, date |-> d]) :
        sc \in scores, u \in users, d \in dates }

Init ==
    /\ checkin = <<>>
    /\ goal = <<>>
    /\ reflection = <<>>
    /\ today = 1
    /\ clock = 0
    /\ nextOid = 1
    /\ inflight = [w \in 1..MaxWorkers |-> None]
    /\ req = NoRequest
    /\ resp = NoRequest

(***************************************************************************)
(* SpecCheckin: two callers' check-ins on calendar dates and their         *)
(* statistics, one request at a time.                                      *)
(***************************************************************************)
NextCheckin ==
    \/ \E h \in Headers,
          payload \in CheckInPayloads({ScoresA, ScoresB, ScoresBad}, Anon, CalendarDates) :
          create_checkin(h, payload)
    \/ \E h \in Headers, days \in {1, 2, 365} : stats_summary(days, h)

SpecCheckin == Init /\ [][NextCheckin]_vars

(***************************************************************************)
(* SpecStreak: one caller's check-ins under any date text, while the days  *)
(* pass.                                                                   *)
(***************************************************************************)
NextStreak ==
    \/ \E payload \in CheckInPayloads({ScoresA, ScoresBad}, Anon, AnyDates) :
          create_checkin(None, payload)
    \/ \E days \in {0, 1, 2, 365, 366} : stats_summary(days, None)
    \/ NextDay

SpecStreak == Init /\ [][NextStreak]_vars

(***************************************************************************)
(* SpecGoal: two callers create, patch and delete goals while the clock    *)
(* runs.                                                                   *)
(***************************************************************************)
GoalBase ==
    [user_id |-> None, title |-> "walk", dimension |-> "P", cadence |-> "weekly",
     status |-> "active", progress |-> 30]

GoalPayloads == {GoalBase, [GoalBase EXCEPT !.progress = 101, !.dimension = "X"]}

NoPatch ==
    [title |-> None, dimension |-> None, cadence |-> None, status |-> None,
     progress |-> None]

ProgressPatch == [NoPatch EXCEPT !.progress = Some(0)]

WildPatch == [NoPatch EXCEPT !.progress = Some(500), !.status = Some("bogus")]

GoalPatches == {NoPatch, ProgressPatch}

GoalIds == {StrOid(i) : i \in 1..MaxGoals} \cup {BadOid}

NextGoal ==
    \/ \E h \in Headers, payload \in GoalPayloads : create_goal(payload, h)
    \/ \E h \in Headers, id \in GoalIds, payload \in GoalPatches :
          update_goal(id, payload, h)
    \/ \E h \in Headers, id \in GoalIds : delete_goal(id, h)
    \/ Tick

SpecGoal == Init /\ [][NextGoal]_vars

(***************************************************************************)
(* SpecConc: check-in submissions served at the same time.                 *)
(***************************************************************************)
NextConc ==
    \/ \E w \in 1..MaxWorkers,
          payload \in CheckInPayloads({ScoresA, ScoresB, ScoresBad}, Anon,
                                      {None, Some(isoformat(0))}) :
          CheckinFind(w, None, payload)
    \/ \E w \in 1..MaxWorkers : CheckinStore(w)
    \/ \E w \in 1..MaxWorkers : CheckinReturn(w)

SpecConc == Init /\ [][NextConc]_vars

(***************************************************************************)
(* Spec: the whole API, one request at a time.                             *)
(***************************************************************************)
ReflectionPayloads ==
    { [user_id |-> u, text |-> "calm", tags |-> <<"am">>, date |-> None] :
        u \in PayloadUsers }

Next ==
    \/ \E h \in Headers, payload \in CheckInPayloads({ScoresA}, PayloadUsers, {None}) :
          create_checkin(h, payload)
    \/ \E h \in Headers : stats_summary(365, h)
    \/ \E h \in Headers, u \in PayloadUsers :
          create_goal([GoalBase EXCEPT !.user_id = u], h)
    \/ \E h \in Headers, id \in GoalIds, payload \in {ProgressPatch, WildPatch} :
          update_goal(id, payload, h)
    \/ \E h \in Headers, id \in GoalIds : delete_goal(id, h)
    \/ \E h \in Headers, payload \in ReflectionPayloads : create_reflection(payload, h)

Spec == Init /\ [][Next]_vars

(***************************************************************************)
(* SpecUpsert: two callers submit check-ins for today, one of them for     *)
(* day 0 as well, while the clock runs.                                    *)
(***************************************************************************)
NextUpsert ==
    \/ \E h \in Headers,
          payload \in CheckInPayloads({ScoresA, ScoresB, ScoresBad}, Anon, {None}) :
          create_checkin(h, payload)
    \/ \E payload \in CheckInPayloads({ScoresA, ScoresB}, Anon, {Some(isoformat(0))}) :
          create_checkin(None, payload)
    \/ Tick

SpecUpsert == Init /\ [][NextUpsert]_vars

(***************************************************************************)
(* Properties of the check-in upsert.                                      *)
(***************************************************************************)
\* the stored check-ins of one (user_id, date)
CheckinsOf(col, user_id, date) ==
    {i \in 1..Len(col) : col[i].user_id = user_id /\ col[i].date = date}

SameScores(doc, payload) ==
    /\ \A k \in ScoreKeys : doc[k] = payload[k]
    /\ doc.note = payload.note

\* what one accepted submission for (user_id, date) leaves behind
UpsertPost(user_id, date, payload) ==
    /\ Cardinality(CheckinsOf(checkin', user_id, date)) = 1
    /\ \A i \in CheckinsOf(checkin', user_id, date) : SameScores(checkin'[i], payload)
    /\ \A j \in CheckinsOf(checkin, user_id, date) :
          /\ Len(checkin') = Len(checkin)
          /\ checkin'[j]._id = checkin[j]._id
          /\ j \in CheckinsOf(checkin', user_id, date)

\* C1: every accepted submission for a (user_id, date) leaves exactly one
\* record for that pair, holding the submitted p, e, r, m, a and note; when a
\* record for the pair was there (a first submission), it is that record,
\* under the identifier it had, that holds the second submission's values.
C1_UpsertTwice ==
    [][\A h \in Headers,
          payload \in CheckInPayloads({ScoresA, ScoresB}, Anon,
                                      {None, Some(isoformat(0))}) :
          create_checkin(h, payload) =>
              UpsertPost(get_user_id(h), CheckInDump(payload, today).date, payload)]_vars

\* C1 witness: a second submission has overwritten the first one's scores: the
\* only record was created earlier than it was last updated, and holds the
\* scores of the request just served.
C1_Witness ==
    /\ req.op = "create_checkin"
    /\ resp.status = 200
    /\ Len(checkin) = 1
    /\ checkin[1].created_at < checkin[1].updated_at
    /\ checkin[1]._id = 1
    /\ SameScores(checkin[1], req.payload)
    /\ req.payload.p = ScoresB.p

(***************************************************************************)
(* Properties of the summary statistics.                                   *)
(***************************************************************************)
Served(op) == req.op = op /\ resp.status = 200

\* the user has a check-in whose date is the given calendar day
HasCheckinOn(user_id, day) ==
    \E d \in Range(checkin) : d.user_id = user_id /\ ParseOk(d.date) /\ parse(d.date) = day

\* C3: a summary returned to a user who has no check-in dated today reports
\* streak 0, whatever earlier days have check-ins.
C3_NoCheckinTodayNoStreak ==
    (Served("stats_summary") /\ ~HasCheckinOn(req.caller, today))
        => resp.body.streak = 0

\* C3 witness: a summary was returned to a user with check-ins on the two days
\* before today and none today.
C3_Witness ==
    /\ Served("stats_summary")
    /\ ~HasCheckinOn(req.caller, today)
    /\ HasCheckinOn(req.caller, today - 1)
    /\ HasCheckinOn(req.caller, today - 2)
    /\ resp.body.streak = 0

UserCheckins(user_id) == {d \in Range(checkin) : d.user_id = user_id}

\* C4: for K >= 1 and days >= K, the summary reports streak K exactly when the
\* user has a check-in on each of the K days ending today and none on the day
\* K days before today. Stated for the requests whose window holds the user's
\* whole history, so that no check-in is cut off by the limit.
C4_StreakIffConsecutive ==
    (Served("stats_summary") /\ req.days >= Cardinality(UserCheckins(req.caller))) =>
        \A K \in 1..MaxOid :
            req.days >= K =>
                ( resp.body.streak = K
                  <=> /\ \A i \in 0..(K - 1) : HasCheckinOn(req.caller, today - i)
                      /\ ~HasCheckinOn(req.caller, today - K) )

\* C8: no stored check-in has a date that is not an ISO 8601 calendar date, and
\* stats_summary never fails parsing a stored date.
C8_NoMalformedDateStored ==
    /\ \A d \in Range(checkin) : d.date.kind = "date"
    /\ ~(req.op = "stats_summary" /\ resp.status = 500)

RECURSIVE SumOver(_, _)
SumOver(S, k) ==
    IF S = {} THEN 0
    ELSE LET d == CHOOSE d \in S : TRUE IN d[k] + SumOver(S \ {d}, k)

\* the user's check-ins with fewer than days check-ins of later date
MostRecent(user_id, days) ==
    {d \in UserCheckins(user_id) :
        Cardinality({e \in UserCheckins(user_id) : StrKey(e.date) > StrKey(d.date)}) < days}

Min(x, y) == IF x < y THEN x ELSE y

Abs(x) == IF x < 0 THEN -x ELSE x

\* C5: a summary returned for days reports count = min(days, number of the
\* user's check-ins), and every average is the mean of that score over the
\* count most recent check-ins of the user, to the nearest hundredth.
C5_CountAndAverages ==
    Served("stats_summary") =>
        LET mine == UserCheckins(req.caller)
            recent == MostRecent(req.caller, req.days)
            n == resp.body.count
        IN /\ n = Min(req.days, Cardinality(mine))
           /\ Cardinality(recent) = n
           /\ \A k \in ScoreKeys :
                 IF n = 0 THEN resp.body.avg[k] = None
                 ELSE 2 * Abs(100 * SumOver(recent, k) - resp.body.avg[k] * n) <= n

\* C5 witness: a summary over a window smaller than the user's history was
\* returned while another user has check-ins too.
C5_Witness ==
    /\ Served("stats_summary")
    /\ resp.body.count = req.days
    /\ Cardinality(UserCheckins(req.caller)) > req.days
    /\ \E d \in Range(checkin) : d.user_id # req.caller /\ d.p > 0
    /\ \E d \in UserCheckins(req.caller) \ MostRecent(req.caller, req.days) :
          d.p * 100 # resp.body.avg.p

(***************************************************************************)
(* Properties of the goal operations.                                      *)
(***************************************************************************)
\* the goals stored under an identifier
GoalsWithId(oid) == {i \in 1..Len(goal) : goal[i]._id = oid}

NonNull(payload) == {k \in PatchKeys : payload[k] # None}

\* goal i after the step is goal i before it with the payload's non-null fields
\* set and updated_at stamped
Patched(i, payload) ==
    /\ DOMAIN goal'[i] = DOMAIN goal[i]
    /\ \A k \in DOMAIN goal[i] :
          goal'[i][k] = IF k \in NonNull(payload) THEN payload[k][1]
                        ELSE IF k = "updated_at" THEN clock
                        ELSE goal[i][k]

\* C6: a patch served to the goal's owner changes, of that goal, exactly the
\* payload's non-null fields and updated_at (with only progress non-null:
\* title, dimension, cadence, status, user_id and the identifier stay), and it
\* changes no other goal.
C6_PatchFrame ==
    [][\A h \in Headers, id \in GoalIds, payload \in GoalPatches :
          (update_goal(id, payload, h) /\ resp'.status = 200) =>
              /\ Len(goal') = Len(goal)
              /\ \A i \in 1..Len(goal) :
                    IF goal[i]._id = ObjectId(id) THEN Patched(i, payload)
                    ELSE goal'[i] = goal[i]]_vars

\* C6 witness: a patch carrying only progress (0) was served: the goal holds
\* progress 0 and a later updated_at, the title, dimension, cadence and status
\* it was created with, and another goal is stored beside it.
C6_Witness ==
    /\ req.op = "update_goal"
    /\ resp.status = 200
    /\ NonNull(req.payload) = {"progress"}
    /\ Len(goal) = 2
    /\ \E i \in GoalsWithId(ObjectId(req.goal_id)) :
          /\ goal[i].progress = 0
          /\ goal[i].created_at < goal[i].updated_at
          /\ goal[i].title = GoalBase.title
          /\ goal[i].status = GoalBase.status

\* the goal stored under goal_id belongs to another user than the caller
ForeignGoal(goal_id, x_user_id) ==
    /\ ObjectIdOk(goal_id)
    /\ \E i \in GoalsWithId(ObjectId(goal_id)) : goal[i].user_id # get_user_id(x_user_id)

NotFoundUnchanged == resp'.status = 404 /\ goal' = goal

\* C7 as stated: update_goal and delete_goal on another user's goal answer 404
\* and leave the goals unchanged.
C7_ForeignGoalNotFound ==
    [][\A h \in Headers, id \in GoalIds :
          ForeignGoal(id, h) =>
              /\ delete_goal(id, h) => NotFoundUnchanged
              /\ \A payload \in GoalPatches :
                    update_goal(id, payload, h) => NotFoundUnchanged]_vars

\* C7 amended: delete_goal, and update_goal with at least one non-null field,
\* on another user's goal answer 404; update_goal with no non-null field
\* answers 400; the goals are unchanged in every case.
C7_ForeignGoalRefused ==
    [][\A h \in Headers, id \in GoalIds :
          ForeignGoal(id, h) =>
              /\ delete_goal(id, h) => NotFoundUnchanged
              /\ \A payload \in GoalPatches :
                    update_goal(id, payload, h) =>
                        /\ goal' = goal
                        /\ resp'.status = IF NonNull(payload) = {} THEN 400 ELSE 404]_vars

\* C7 witness: a patch with a non-null field was refused with 404 on a goal
\* stored under another user's id.
C7_Witness ==
    /\ req.op = "update_goal"
    /\ resp.status = 404
    /\ NonNull(req.payload) # {}
    /\ ObjectIdOk(req.goal_id)
    /\ \E i \in GoalsWithId(ObjectId(req.goal_id)) : goal[i].user_id # req.caller

\* C9: every stored goal has progress in 0..100, status in {active, done,
\* archived}, cadence in {daily, weekly, adhoc} and dimension in {P, E, R, M, A}.
C9_GoalsWellFormed ==
    \A g \in Range(goal) :
        /\ g.progress \in ProgressMin..ProgressMax
        /\ g.status \in Statuses
        /\ g.cadence \in Cadences
        /\ g.dimension \in Dimensions

(***************************************************************************)
(* Properties under concurrency, and of the caller's scope.                *)
(***************************************************************************)
\* C2: under any interleaving of the requests' store calls, the check-ins
\* hold at most one record per (user_id, date).
C2_AtMostOnePerUserDate ==
    \A i, j \in 1..Len(checkin) :
        (checkin[i].user_id = checkin[j].user_id /\ checkin[i].date = checkin[j].date)
            => i = j

\* the documents of a collection that a step created or changed
Touched(before, after) == {d \in Range(after) : d \notin Range(before)}

\* C10: a request never creates or modifies a check-in, goal or reflection
\* whose user_id differs from the caller's resolved identity.
C10_WritesOwnDocumentsOnly ==
    [][\A d \in Touched(checkin, checkin') \cup Touched(goal, goal')
                  \cup Touched(reflection, reflection') :
          d.user_id = req'.caller]_vars

============================================================================
